---------------------------- MODULE Spec2Model ----------------------------
(***************************************************************************)
(* Significant-change detection of the BNR exchange-rate monitor           *)
(* (src/change_detector.py) and the alert store it writes to               *)
(* (src/database/models.py).                                               *)
(*                                                                         *)
(* Rates are integers in hundredths (490 is 4.90).  A Python float that    *)
(* holds a percentage is the record [num, den, err]: the exact rational    *)
(* num/den (lowest terms, den > 0) and err, the direction in which the     *)
(* IEEE-754 double evaluation of the expression is off the exact value     *)
(* (-1 below, 0 exact, 1 above).  Two such values compare by the exact     *)
(* value first and by err on a tie, which is how the doubles compare on    *)
(* the rate values used here.  A calendar date is a day number; a          *)
(* datetime is [day, tod] with tod the time of day.                        *)
(***************************************************************************)
EXTENDS Integers, Sequences, FiniteSets

VARIABLES
    \* the library call detect_changes(rates) on a detector
    change_threshold,   \* self.change_threshold (percent)
    max_duration_days,  \* self.max_duration_days
    d_rates,            \* the argument: a list of ExchangeRate rows
    d_pc,               \* "ready", "returned" or "raised"
    d_candidates,       \* the list handed to _remove_overlapping_changes
    d_result,           \* the returned list
    d_calls,            \* history: calls of detect_changes made on the detector
    \* the call _calculate_severity(change_percent, duration_days)
    s_change, s_days, s_pc, s_result,
    \* the store and analyze_exchange_rates(currency), per currency
    exchange_rates,     \* table exchange_rates
    rate_alerts,        \* table rate_alerts
    pc,                 \* position of the invocation for each currency
    rates,              \* local rates
    changes,            \* local changes
    idx,                \* position of the for loop of save_alerts_to_database
    saved_count,        \* local saved_count
    save_ret,           \* value returned by save_alerts_to_database
    ret,                \* value returned by analyze_exchange_rates
    failed,             \* history: loop positions whose save_rate_alert raised
    base,               \* history: rows of rate_alerts when the invocation began
    seen,               \* history: rows of exchange_rates when it was queried
    fetched,            \* history: the list get_rates_by_currency returned
    runs,               \* history: invocations begun
    clean,              \* history: no save has raised, over all invocations
    database_available, \* module flag DATABASE_AVAILABLE
    outcome,            \* history: how far the last invocation got
    \* the calls save_rate_alert(alert) and get_rate_alerts(currency)
    a_saved,            \* history: the alerts saved, each with the id returned
    a_query,            \* the currency of the last get_rate_alerts, or "none"
    a_got               \* the list that call returned

vars == <<change_threshold, max_duration_days, d_rates, d_pc, d_candidates,
          d_result, d_calls, s_change, s_days, s_pc, s_result,
          exchange_rates, rate_alerts, pc, rates, changes, idx, saved_count,
          save_ret, ret, failed, base, seen, fetched, runs, clean,
          database_available, outcome, a_saved, a_query, a_got>>

detectVars == <<d_rates, d_pc, d_candidates, d_result, d_calls>>
severityVars == <<s_change, s_days, s_pc, s_result>>
alertVars == <<a_saved, a_query, a_got>>
storeVars == <<exchange_rates, rate_alerts, pc, rates, changes, idx,
               saved_count, save_ret, ret, failed, base, seen, fetched, runs,
               clean, database_available, outcome, alertVars>>

----------------------------------------------------------------------------
(* Bounds of the model *)

\* most observations in a date-ascending, one-per-date input series
MaxObs == 4
\* most rows in an input list of arbitrary order, dates repeated or not
MaxSeqLen == 2
\* largest absolute change handed to _calculate_severity, in tenths of a percent
MaxTenths == 60
\* largest duration handed to _calculate_severity
MaxSevDays == 21
\* most rows of table exchange_rates
MaxRows == 4
\* most invocations of analyze_exchange_rates for one currency
MaxRuns == 2
\* most calls of detect_changes on one detector, and most rows in the
\* argument of each
MaxCalls == 2
MaxCallLen == 2
\* most calls of save_exchange_rate
MaxSaves == 3

\* calendar dates of the observations (day numbers)
Dates == {0, 1, 5, 10, 20}
\* rates in hundredths; 0 is the rate no division survives
RateValues == {0, 470, 490, 500, 525}
\* rates of the lists of arbitrary order
AnyRates == {0, 470, 500}
\* dates and rates of the rows of table exchange_rates
StoreDates == {0, 5, 10, 20}
StoreRates == {470, 500}
\* timestamps of the rows that save_exchange_rate stores: two of one day and
\* one of a later day
SaveTimes == {<<0, 0>>, <<0, 9>>, <<5, 0>>}
\* dates five days apart and rates that double: each step is a change of
\* exactly 100 or -50 percent, in the doubles too
TieDates == {0, 5, 10, 15}
TieRates == {100, 200, 400, 800}
\* dates of the rows handed to a detector that is called repeatedly
CallDates == {0, 5, 10}
\* detector configurations
Thresholds == {0, 2, 5}
Durations == {0, 9, 60}

----------------------------------------------------------------------------
(* Arithmetic *)

Abs(x) == IF x < 0 THEN -x ELSE x

RECURSIVE GCD(_, _)
GCD(a, b) == IF b = 0 THEN a ELSE GCD(b, a % b)

\* the double nearest num/den, off it in direction err
Float(num, den, err) ==
    LET g == GCD(Abs(num), Abs(den))
        s == IF den < 0 THEN -1 ELSE 1
    IN  [num |-> (s * num) \div g, den |-> (s * den) \div g, err |-> err]

FloatOfInt(k) == [num |-> k, den |-> 1, err |-> 0]

\* -1, 0, 1 as x < y, x = y, x > y
FloatCmp(x, y) ==
    LET l == x.num * y.den
        r == y.num * x.den
    IN  IF l < r THEN -1
        ELSE IF l > r THEN 1
        ELSE IF x.err < y.err THEN -1
        ELSE IF x.err > y.err THEN 1
        ELSE 0

FloatGT(x, y) == FloatCmp(x, y) = 1
FloatGE(x, y) == FloatCmp(x, y) >= 0

\* abs(x)
FloatAbs(x) ==
    IF x.num < 0 \/ (x.num = 0 /\ x.err < 0)
    THEN [num |-> -x.num, den |-> x.den, err |-> -x.err]
    ELSE x

\* direction of the rounding of ((end_rate - start_rate) / start_rate) * 100
\* in IEEE-754 double arithmetic, for the rates of RateValues
RoundingErr(start_rate, end_rate) ==
    IF <<start_rate, end_rate>> \in
         {<<470, 490>>, <<500, 470>>, <<500, 490>>, <<525, 470>>,
          <<525, 490>>, <<525, 500>>}
    THEN 1
    ELSE IF <<start_rate, end_rate>> \in
         {<<470, 500>>, <<470, 525>>, <<490, 470>>, <<490, 500>>,
          <<490, 525>>}
    THEN -1
    ELSE 0

\* change_percent = ((end_rate - start_rate) / start_rate) * 100, start_rate # 0
ChangePercent(start_rate, end_rate) ==
    Float(100 * (end_rate - start_rate), start_rate,
          RoundingErr(start_rate, end_rate))

----------------------------------------------------------------------------
(* Data *)

DateTime(day, tod) == [day |-> day, tod |-> tod]
\* datetime.combine(d, datetime.min.time())
Midnight(day) == DateTime(day, 0)
\* timestamp.date()
DateOf(ts) == ts.day

ExchangeRate(currency, timestamp, rate, is_valid) ==
    [currency |-> currency, timestamp |-> timestamp, rate |-> rate,
     is_valid |-> is_valid]

Observation(day, rate) == ExchangeRate("EUR", Midnight(day), rate, TRUE)

\* The text of a datetime is a sequence of characters.  Two decimal digits of
\* the day number stand for YYYY-MM-DD and two of the time of day for
\* HH:MM:SS, each zero-padded to a fixed width as in the ISO format; SQLite
\* compares TEXT values character by character in the order of Alphabet.
Alphabet == <<" ", "0", "1", "2", "3", "4", "5", "6", "7", "8", "9", "T">>
CharCode(ch) == CHOOSE i \in DOMAIN Alphabet : Alphabet[i] = ch
Digit(n) == Alphabet[n + 2]
DigitValue(ch) == CharCode(ch) - 2
TwoDigits(n) == <<Digit(n \div 10), Digit(n % 10)>>

\* datetime.isoformat()
IsoFormat(dt) == TwoDigits(dt.day) \o <<"T">> \o TwoDigits(dt.tod)

\* datetime.fromisoformat(text), after the replacement of a space separator
\* by T
FromIsoFormat(text) ==
    DateTime(10 * DigitValue(text[1]) + DigitValue(text[2]),
             10 * DigitValue(text[4]) + DigitValue(text[5]))

\* a <= b as SQLite orders TEXT: by the first character that differs, a
\* prefix before its extensions
TextLE(a, b) ==
    LET differ == {i \in DOMAIN a \cap DOMAIN b : a[i] # b[i]}
        first == CHOOSE i \in differ : \A m \in differ : i <= m
    IN  IF differ = {} THEN Len(a) <= Len(b)
        ELSE CharCode(a[first]) < CharCode(b[first])

----------------------------------------------------------------------------
(* ChangeDetector._calculate_severity *)

CalculateSeverity_InclusiveHigh(change_percent, duration_days) ==
    IF FloatGE(change_percent, FloatOfInt(5))
         \/ (FloatGT(change_percent, FloatOfInt(3)) /\ duration_days < 7)
    THEN "high"
    ELSE IF FloatGT(change_percent, FloatOfInt(3))
         \/ (FloatGT(change_percent, FloatOfInt(2)) /\ duration_days < 14)
    THEN "medium"
    ELSE "low"

CalculateSeverity_WeekInclusive(change_percent, duration_days) ==
    IF FloatGT(change_percent, FloatOfInt(5))
         \/ (FloatGT(change_percent, FloatOfInt(3)) /\ duration_days <= 7)
    THEN "high"
    ELSE IF FloatGT(change_percent, FloatOfInt(3))
         \/ (FloatGT(change_percent, FloatOfInt(2)) /\ duration_days < 14)
    THEN "medium"
    ELSE "low"

CalculateSeverity_LongIsUrgent(change_percent, duration_days) ==
    IF FloatGT(change_percent, FloatOfInt(5))
         \/ (FloatGT(change_percent, FloatOfInt(3)) /\ duration_days > 7)
    THEN "high"
    ELSE IF FloatGT(change_percent, FloatOfInt(3))
         \/ (FloatGT(change_percent, FloatOfInt(2)) /\ duration_days < 14)
    THEN "medium"
    ELSE "low"

CalculateSeverity(change_percent, duration_days) ==
    IF FloatGT(change_percent, FloatOfInt(5))
         \/ (FloatGT(change_percent, FloatOfInt(3)) /\ duration_days < 7)
    THEN "high"
    ELSE IF FloatGT(change_percent, FloatOfInt(3))
         \/ (FloatGT(change_percent, FloatOfInt(2)) /\ duration_days < 14)
    THEN "medium"
    ELSE "low"

----------------------------------------------------------------------------
(* ChangeDetector.detect_changes: the scan *)

RatesByDate_FirstWins(rate_list) ==
    [d \in {DateOf(rate_list[k].timestamp) : k \in DOMAIN rate_list} |->
        LET first == CHOOSE k \in DOMAIN rate_list :
                         /\ DateOf(rate_list[k].timestamp) = d
                         /\ \A m \in DOMAIN rate_list :
                                DateOf(rate_list[m].timestamp) = d => k <= m
        IN  rate_list[first]]

\* rates_by_date = {rate.timestamp.date(): rate for rate in rates}
RatesByDate(rate_list) ==
    [d \in {DateOf(rate_list[k].timestamp) : k \in DOMAIN rate_list} |->
        LET last == CHOOSE k \in DOMAIN rate_list :
                        /\ DateOf(rate_list[k].timestamp) = d
                        /\ \A m \in DOMAIN rate_list :
                               DateOf(rate_list[m].timestamp) = d => m <= k
        IN  rate_list[last]]

\* sorted(rates_by_date.keys())
RECURSIVE SortedDates(_)
SortedDates(S) ==
    IF S = {} THEN <<>>
    ELSE LET least == CHOOSE d \in S : \A e \in S : d <= e
         IN  <<least>> \o SortedDates(S \ {least})

AlertType_NonNegative(change_percent) ==
    IF FloatGE(change_percent, FloatOfInt(0)) THEN "positive" ELSE "negative"

\* 'positive' if change_percent > 0 else 'negative'
AlertType(change_percent) ==
    IF FloatGT(change_percent, FloatOfInt(0)) THEN "positive" ELSE "negative"

Significant_Strict(change_percent, threshold) ==
    FloatGT(FloatAbs(change_percent), FloatOfInt(threshold))

\* abs(change_percent) >= self.change_threshold
Significant(change_percent, threshold) ==
    FloatGE(FloatAbs(change_percent), FloatOfInt(threshold))

ChangePoint_InclusiveDuration(start_date, end_date, start_rate, end_rate) ==
    LET change_percent == ChangePercent(start_rate, end_rate)
        duration_days == end_date - start_date + 1
    IN  [start_date |-> Midnight(start_date),
         end_date |-> Midnight(end_date),
         start_rate |-> start_rate,
         end_rate |-> end_rate,
         change_percent |-> change_percent,
         duration_days |-> duration_days,
         alert_type |-> AlertType(change_percent),
         severity |-> CalculateSeverity(FloatAbs(change_percent),
                                        duration_days)]

\* the ChangePoint built for the dates start_date < end_date
ChangePoint(start_date, end_date, start_rate, end_rate) ==
    LET change_percent == ChangePercent(start_rate, end_rate)
        duration_days == end_date - start_date
    IN  [start_date |-> Midnight(start_date),
         end_date |-> Midnight(end_date),
         start_rate |-> start_rate,
         end_rate |-> end_rate,
         change_percent |-> change_percent,
         duration_days |-> duration_days,
         alert_type |-> AlertType(change_percent),
         severity |-> CalculateSeverity(FloatAbs(change_percent),
                                        duration_days)]

OutsideWindow_Exclusive(duration_days, max_days) == duration_days >= max_days

\* if duration_days > self.max_duration_days: break
OutsideWindow(duration_days, max_days) == duration_days > max_days

RECURSIVE ScanFrom_ReturnsAtWindow(_, _, _, _, _, _, _)
ScanFrom_ReturnsAtWindow(i, j, by_date, dates, threshold, max_days, acc) ==
    IF i > Len(dates)
    THEN [raised |-> FALSE, changes |-> acc]
    ELSE IF j > Len(dates)
    THEN ScanFrom_ReturnsAtWindow(i + 1, i + 2, by_date, dates, threshold,
                                  max_days, acc)
    ELSE LET start_rate == by_date[dates[i]].rate
             end_rate == by_date[dates[j]].rate
         IN  IF OutsideWindow(dates[j] - dates[i], max_days)
             THEN [raised |-> FALSE, changes |-> acc]
             ELSE IF start_rate = 0
             THEN [raised |-> TRUE, changes |-> acc]
             ELSE ScanFrom_ReturnsAtWindow(i, j + 1, by_date, dates,
                      threshold, max_days,
                      IF Significant(ChangePercent(start_rate, end_rate),
                                     threshold)
                      THEN Append(acc, ChangePoint(dates[i], dates[j],
                                                   start_rate, end_rate))
                      ELSE acc)

\* The two nested loops from position (i, j) on, with the candidates found so
\* far; raised is the ZeroDivisionError of the percentage.
RECURSIVE ScanFrom(_, _, _, _, _, _, _)
ScanFrom(i, j, rates_by_date, sorted_dates, threshold, max_days, acc) ==
    IF i > Len(sorted_dates)
    THEN [raised |-> FALSE, changes |-> acc]
    ELSE IF j > Len(sorted_dates)
    THEN ScanFrom(i + 1, i + 2, rates_by_date, sorted_dates, threshold,
                  max_days, acc)
    ELSE LET start_date == sorted_dates[i]
             end_date == sorted_dates[j]
             start_rate == rates_by_date[start_date].rate
             end_rate == rates_by_date[end_date].rate
         IN  IF OutsideWindow(end_date - start_date, max_days)
             THEN ScanFrom(i + 1, i + 2, rates_by_date, sorted_dates,
                           threshold, max_days, acc)
             ELSE IF start_rate = 0
             THEN [raised |-> TRUE, changes |-> acc]
             ELSE ScanFrom(i, j + 1, rates_by_date, sorted_dates, threshold,
                           max_days,
                           IF Significant(ChangePercent(start_rate, end_rate),
                                          threshold)
                           THEN Append(acc, ChangePoint(start_date, end_date,
                                                        start_rate, end_rate))
                           ELSE acc)

\* the dates of the list in the order of their first rows
RECURSIVE DatesInListOrder(_)
DatesInListOrder(rate_list) ==
    IF rate_list = <<>> THEN <<>>
    ELSE LET n == Len(rate_list)
             d == DateOf(rate_list[n].timestamp)
             before == DatesInListOrder(SubSeq(rate_list, 1, n - 1))
         IN  IF \E k \in DOMAIN before : before[k] = d
             THEN before
             ELSE Append(before, d)

Scan_DatesUnsorted(rate_list, threshold, max_days) ==
    ScanFrom(1, 2, RatesByDate(rate_list), DatesInListOrder(rate_list),
             threshold, max_days, <<>>)

Scan(rate_list, threshold, max_days) ==
    ScanFrom(1, 2, RatesByDate(rate_list),
             SortedDates(DOMAIN RatesByDate(rate_list)), threshold, max_days,
             <<>>)

----------------------------------------------------------------------------
(* ChangeDetector._remove_overlapping_changes *)

SortBySignificance_Omitted(change_list) == change_list

RECURSIVE SortBySignificance_Ascending(_)
SortBySignificance_Ascending(change_list) ==
    IF change_list = <<>> THEN <<>>
    ELSE LET n == Len(change_list)
             x == change_list[n]
             s == SortBySignificance_Ascending(SubSeq(change_list, 1, n - 1))
             k == Cardinality({m \in DOMAIN s :
                     FloatGE(FloatAbs(x.change_percent),
                             FloatAbs(s[m].change_percent))})
         IN  SubSeq(s, 1, k) \o <<x>> \o SubSeq(s, k + 1, Len(s))

RECURSIVE SortBySignificance_TiesReversed(_)
SortBySignificance_TiesReversed(change_list) ==
    IF change_list = <<>> THEN <<>>
    ELSE LET n == Len(change_list)
             x == change_list[n]
             s == SortBySignificance_TiesReversed(
                      SubSeq(change_list, 1, n - 1))
             k == Cardinality({m \in DOMAIN s :
                     FloatGT(FloatAbs(s[m].change_percent),
                             FloatAbs(x.change_percent))})
         IN  SubSeq(s, 1, k) \o <<x>> \o SubSeq(s, k + 1, Len(s))

\* sorted(changes, key=lambda x: abs(x.change_percent), reverse=True); the
\* sort is stable, also with reverse=True
RECURSIVE SortBySignificance(_)
SortBySignificance(change_list) ==
    IF change_list = <<>> THEN <<>>
    ELSE LET n == Len(change_list)
             x == change_list[n]
             s == SortBySignificance(SubSeq(change_list, 1, n - 1))
             k == Cardinality({m \in DOMAIN s :
                     FloatGE(FloatAbs(s[m].change_percent),
                             FloatAbs(x.change_percent))})
         IN  SubSeq(s, 1, k) \o <<x>> \o SubSeq(s, k + 1, Len(s))

DateTimeLE(a, b) == a.day < b.day \/ (a.day = b.day /\ a.tod <= b.tod)

SortByStartDate_Omitted(change_list) == change_list

\* sorted(non_overlapping, key=lambda x: x.start_date)
RECURSIVE SortByStartDate(_)
SortByStartDate(change_list) ==
    IF change_list = <<>> THEN <<>>
    ELSE LET n == Len(change_list)
             x == change_list[n]
             s == SortByStartDate(SubSeq(change_list, 1, n - 1))
             k == Cardinality({m \in DOMAIN s :
                     DateTimeLE(s[m].start_date, x.start_date)})
         IN  SubSeq(s, 1, k) \o <<x>> \o SubSeq(s, k + 1, Len(s))

ChangeDates_EndExcluded(change) ==
    DateOf(change.start_date) .. (DateOf(change.end_date) - 1)

\* the set of all dates in the change period, both ends included
ChangeDates(change) ==
    DateOf(change.start_date) .. DateOf(change.end_date)

RECURSIVE SelectNonOverlapping_Inverted(_, _, _, _)
SelectNonOverlapping_Inverted(sorted, k, accepted, used_dates) ==
    IF k > Len(sorted) THEN accepted
    ELSE IF ChangeDates(sorted[k]) \cap used_dates # {}
    THEN SelectNonOverlapping_Inverted(sorted, k + 1,
             Append(accepted, sorted[k]),
             used_dates \cup ChangeDates(sorted[k]))
    ELSE SelectNonOverlapping_Inverted(sorted, k + 1, accepted, used_dates)

\* the for loop over sorted_changes from position k on
RECURSIVE SelectNonOverlapping(_, _, _, _)
SelectNonOverlapping(sorted_changes, k, non_overlapping, used_dates) ==
    IF k > Len(sorted_changes) THEN non_overlapping
    ELSE IF ChangeDates(sorted_changes[k]) \cap used_dates = {}
    THEN SelectNonOverlapping(sorted_changes, k + 1,
             Append(non_overlapping, sorted_changes[k]),
             used_dates \cup ChangeDates(sorted_changes[k]))
    ELSE SelectNonOverlapping(sorted_changes, k + 1, non_overlapping,
                              used_dates)

RemoveOverlappingChanges(change_list) ==
    IF change_list = <<>> THEN <<>>
    ELSE SortByStartDate(
             SelectNonOverlapping(SortBySignificance(change_list), 1, <<>>,
                                  {}))

----------------------------------------------------------------------------
(* ChangeDetector.detect_changes *)

DetectChanges_ShortIsError(rate_list, threshold, max_days) ==
    IF Len(rate_list) < 2
    THEN [raised |-> TRUE, candidates |-> <<>>, result |-> <<>>]
    ELSE LET scan == Scan(rate_list, threshold, max_days)
         IN  IF scan.raised
             THEN [raised |-> TRUE, candidates |-> <<>>, result |-> <<>>]
             ELSE [raised |-> FALSE, candidates |-> scan.changes,
                   result |-> RemoveOverlappingChanges(scan.changes)]

\* raised: the call ends in an exception; candidates: the argument of
\* _remove_overlapping_changes; result: the returned list
DetectChanges(rate_list, threshold, max_days) ==
    IF Len(rate_list) < 2
    THEN [raised |-> FALSE, candidates |-> <<>>, result |-> <<>>]
    ELSE LET scan == Scan(rate_list, threshold, max_days)
         IN  IF scan.raised
             THEN [raised |-> TRUE, candidates |-> <<>>, result |-> <<>>]
             ELSE [raised |-> FALSE, candidates |-> scan.changes,
                   result |-> RemoveOverlappingChanges(scan.changes)]

----------------------------------------------------------------------------
(* Inputs *)

Currencies == {"EUR", "USD"}

\* date-ascending series with one observation per date, at most n of them
SortedSeries(n) ==
    {[k \in 1 .. Cardinality(DOMAIN f) |->
         Observation(SortedDates(DOMAIN f)[k], f[SortedDates(DOMAIN f)[k]])] :
     f \in UNION {[D -> RateValues] :
                  D \in {E \in SUBSET Dates : Cardinality(E) <= n}}}

\* lists of at most n rows in any order, dates repeated or not
AnySeries(n) ==
    UNION {[1 .. m -> {Observation(d, r) : d \in Dates, r \in AnyRates}] :
           m \in 0 .. n}

\* date-ascending series, one observation per date, whose rates double or
\* halve
TieSeries(n) ==
    {[k \in 1 .. Cardinality(DOMAIN f) |->
         Observation(SortedDates(DOMAIN f)[k], f[SortedDates(DOMAIN f)[k]])] :
     f \in UNION {[D -> TieRates] :
                  D \in {E \in SUBSET TieDates : Cardinality(E) <= n}}}

\* lists of n rows in any order, with several rows of one date at different
\* times of the day
SameDateSeries(n) ==
    [1 .. n -> {ExchangeRate("EUR", DateTime(ts[1], ts[2]), r, TRUE) :
                ts \in SaveTimes, r \in StoreRates}]

DetectInputs ==
    SortedSeries(MaxObs) \cup AnySeries(MaxSeqLen) \cup TieSeries(MaxObs)
        \cup SameDateSeries(MaxSeqLen + 1)

\* arguments of the calls on one detector: lists in any order
CallInputs ==
    UNION {[1 .. m -> {Observation(d, r) : d \in CallDates,
                                           r \in StoreRates}] :
           m \in 0 .. MaxCallLen}

\* absolute changes: a grid of tenths of a percent, each also just below and
\* just above, and the changes between the rates of RateValues
SeverityInputs ==
    {FloatAbs(Float(k, 10, e)) : k \in 0 .. MaxTenths, e \in {-1, 0, 1}}
    \cup {FloatAbs(ChangePercent(s, e)) :
          s \in RateValues \ {0}, e \in RateValues}

\* the parts of the state a specification leaves alone
DetectIdle ==
    /\ d_rates = <<>>
    /\ d_pc = "ready"
    /\ d_candidates = <<>>
    /\ d_result = <<>>
    /\ d_calls = 0

SeverityIdle ==
    /\ s_change = FloatOfInt(0)
    /\ s_days = 0
    /\ s_pc = "ready"
    /\ s_result = "none"

StoreIdle ==
    /\ exchange_rates = <<>>
    /\ rate_alerts = <<>>
    /\ pc = [c \in Currencies |-> "idle"]
    /\ rates = [c \in Currencies |-> <<>>]
    /\ changes = [c \in Currencies |-> <<>>]
    /\ idx = [c \in Currencies |-> 0]
    /\ saved_count = [c \in Currencies |-> 0]
    /\ save_ret = [c \in Currencies |-> -1]
    /\ ret = [c \in Currencies |-> <<>>]
    /\ failed = [c \in Currencies |-> {}]
    /\ base = [c \in Currencies |-> 0]
    /\ seen = [c \in Currencies |-> 0]
    /\ fetched = [c \in Currencies |-> <<>>]
    /\ runs = [c \in Currencies |-> 0]
    /\ clean = [c \in Currencies |-> TRUE]
    /\ database_available = TRUE
    /\ outcome = [c \in Currencies |-> "none"]
    /\ a_saved = <<>>
    /\ a_query = "none"
    /\ a_got = <<>>

----------------------------------------------------------------------------
(* The call _calculate_severity(s_change, s_days) *)

SeverityInit ==
    /\ s_change \in SeverityInputs
    /\ s_days \in 0 .. MaxSevDays
    /\ s_pc = "ready"
    /\ s_result = "none"
    /\ change_threshold = 2
    /\ max_duration_days = 60
    /\ DetectIdle
    /\ StoreIdle

CalculateSeverityCall ==
    /\ s_pc = "ready"
    /\ s_result' = CalculateSeverity(s_change, s_days)
    /\ s_pc' = "returned"
    /\ UNCHANGED <<s_change, s_days, change_threshold, max_duration_days,
                   detectVars, storeVars>>

SeverityNext == CalculateSeverityCall

SeveritySpec == SeverityInit /\ [][SeverityNext]_vars

----------------------------------------------------------------------------
(* The call detect_changes(d_rates) on ChangeDetector(change_threshold,     *)
(* max_duration_days)                                                       *)

DetectInit ==
    /\ d_rates \in DetectInputs
    /\ change_threshold \in Thresholds
    /\ max_duration_days \in Durations
    /\ d_pc = "ready"
    /\ d_candidates = <<>>
    /\ d_result = <<>>
    /\ d_calls = 0
    /\ SeverityIdle
    /\ StoreIdle

DetectChangesCall_KeepsChanges ==
    /\ d_pc = "ready"
    /\ \E out \in {DetectChanges(d_rates, change_threshold,
                                  max_duration_days)} :
           /\ d_pc' = IF out.raised THEN "raised" ELSE "returned"
           /\ d_candidates' = d_candidates \o out.candidates
           /\ d_result' = RemoveOverlappingChanges(d_candidates
                                                     \o out.candidates)
    /\ d_calls' = d_calls + 1
    /\ UNCHANGED <<d_rates, change_threshold, max_duration_days,
                   severityVars, storeVars>>

DetectChangesCall ==
    /\ d_pc = "ready"
    /\ \E out \in {DetectChanges(d_rates, change_threshold,
                                  max_duration_days)} :
           /\ d_pc' = IF out.raised THEN "raised" ELSE "returned"
           /\ d_candidates' = out.candidates
           /\ d_result' = out.result
    /\ d_calls' = d_calls + 1
    /\ UNCHANGED <<d_rates, change_threshold, max_duration_days,
                   severityVars, storeVars>>

DetectNext == DetectChangesCall

DetectSpec == DetectInit /\ [][DetectNext]_vars

----------------------------------------------------------------------------
(* Calls detect_changes(d_rates) in sequence on one detector *)

PureInit ==
    /\ d_rates \in CallInputs
    /\ change_threshold \in Thresholds
    /\ max_duration_days \in Durations
    /\ d_pc = "ready"
    /\ d_candidates = <<>>
    /\ d_result = <<>>
    /\ d_calls = 0
    /\ SeverityIdle
    /\ StoreIdle

\* the caller, holding what the last call returned, calls again with a new
\* argument
DetectChangesAgain ==
    /\ d_pc # "ready"
    /\ d_calls < MaxCalls
    /\ d_rates' \in CallInputs
    /\ d_pc' = "ready"
    /\ UNCHANGED <<d_candidates, d_result, d_calls, change_threshold,
                   max_duration_days, severityVars, storeVars>>

PureNext == DetectChangesCall \/ DetectChangesAgain

PureSpec == PureInit /\ [][PureNext]_vars

----------------------------------------------------------------------------
(* Properties of detect_changes, under DetectSpec *)

\* C1: any two distinct ChangePoints of the list detect_changes returns have
\* inclusive date ranges [start_date, end_date] that share no calendar date,
\* also not the day on which one ends and the other starts.
C1_NoSharedDate ==
    \A a, b \in DOMAIN d_result :
        a # b =>
            \/ DateOf(d_result[a].end_date) < DateOf(d_result[b].start_date)
            \/ DateOf(d_result[b].end_date) < DateOf(d_result[a].start_date)

\* C1 happens: two ChangePoints are returned although some candidate ends on
\* the day another one starts.
C1_Witness ==
    /\ d_pc = "returned"
    /\ Len(d_result) >= 2
    /\ \E a, b \in DOMAIN d_candidates :
           d_candidates[a].end_date = d_candidates[b].start_date

\* row k of the list is the one detect_changes uses for its date
UsedForItsDate(rate_list, k) ==
    \A m \in DOMAIN rate_list :
        DateOf(rate_list[m].timestamp) = DateOf(rate_list[k].timestamp)
            => m <= k

\* C2: for every pair of observations (i, j) with date[i] < date[j],
\* date[j] - date[i] <= max_duration_days and
\* |(rate[j] - rate[i]) / rate[i] * 100| >= change_threshold, the list handed to
\* _remove_overlapping_changes holds a ChangePoint with that start_date and
\* end_date.  An observation is the row used for its date.
C2_ScanComplete ==
    (d_pc = "returned" /\ Len(d_rates) >= 2) =>
        \A i, j \in DOMAIN d_rates :
            LET di == DateOf(d_rates[i].timestamp)
                dj == DateOf(d_rates[j].timestamp)
            IN  (/\ UsedForItsDate(d_rates, i)
                 /\ UsedForItsDate(d_rates, j)
                 /\ di < dj
                 /\ dj - di <= max_duration_days
                 /\ d_rates[i].rate # 0
                 /\ FloatGE(FloatAbs(ChangePercent(d_rates[i].rate,
                                                   d_rates[j].rate)),
                            FloatOfInt(change_threshold)))
                => \E k \in DOMAIN d_candidates :
                       /\ d_candidates[k].start_date = Midnight(di)
                       /\ d_candidates[k].end_date = Midnight(dj)

\* C2 happens: a pair whose change is exactly the threshold and a pair whose
\* duration is exactly the window are among the candidates of one scan.
C2_Witness ==
    /\ d_pc = "returned"
    /\ \E k \in DOMAIN d_candidates :
           /\ FloatCmp(FloatAbs(d_candidates[k].change_percent),
                       FloatOfInt(change_threshold)) = 0
           /\ change_threshold > 0
    /\ \E k \in DOMAIN d_candidates :
           d_candidates[k].duration_days = max_duration_days

\* C3: the list detect_changes returns is ascending by start_date.
C3_SortedByStartDate ==
    \A k \in 1 .. Len(d_result) - 1 :
        \/ d_result[k].start_date.day < d_result[k + 1].start_date.day
        \/ /\ d_result[k].start_date.day = d_result[k + 1].start_date.day
           /\ d_result[k].start_date.tod <= d_result[k + 1].start_date.tod

\* C3 happens: the resolver accepted a later ChangePoint before an earlier one,
\* its change being the larger.
C3_Witness ==
    /\ d_pc = "returned"
    /\ Len(d_result) >= 2
    /\ FloatGT(FloatAbs(d_result[2].change_percent),
               FloatAbs(d_result[1].change_percent))

\* C7: every returned ChangePoint has change_percent = (end_rate - start_rate)
\* / start_rate * 100, alert_type 'positive' iff change_percent > 0 and
\* 'negative' otherwise, and the severity of (|change_percent|,
\* duration_days); with threshold 2.0 and window 60, 4.90 -> 5.00 over 10 days
\* gives one 'positive' 'medium' ChangePoint and 5.00 -> 4.70 over 5 days one
\* 'negative' 'high' ChangePoint.
C7_DerivedFields ==
    /\ \A k \in DOMAIN d_result :
           LET c == d_result[k]
           IN  /\ c.start_rate # 0
               /\ c.change_percent = ChangePercent(c.start_rate, c.end_rate)
               /\ c.alert_type =
                      IF FloatCmp(c.change_percent, FloatOfInt(0)) = 1
                      THEN "positive" ELSE "negative"
               /\ c.severity = CalculateSeverity(FloatAbs(c.change_percent),
                                                 c.duration_days)
    /\ (/\ d_pc # "ready"
        /\ change_threshold = 2
        /\ max_duration_days = 60
        /\ d_rates = <<Observation(0, 490), Observation(10, 500)>>)
       => /\ d_pc = "returned"
          /\ Len(d_result) = 1
          /\ d_result[1].alert_type = "positive"
          /\ d_result[1].severity = "medium"
    /\ (/\ d_pc # "ready"
        /\ change_threshold = 2
        /\ max_duration_days = 60
        /\ d_rates = <<Observation(0, 500), Observation(5, 470)>>)
       => /\ d_pc = "returned"
          /\ Len(d_result) = 1
          /\ d_result[1].alert_type = "negative"
          /\ d_result[1].severity = "high"

\* C7 happens: 5.00 -> 4.70 over 5 days has been analysed with threshold 2.0
\* and window 60.
C7_Witness ==
    /\ d_pc = "returned"
    /\ change_threshold = 2
    /\ max_duration_days = 60
    /\ d_rates = <<Observation(0, 500), Observation(5, 470)>>
    /\ Len(d_result) = 1

\* C8: given fewer than 2 observations, detect_changes returns an empty list
\* and raises no error, whatever the configuration.
C8_ShortInputIsEmpty ==
    (d_pc # "ready" /\ Len(d_rates) < 2) =>
        (d_pc = "returned" /\ d_result = <<>>)

\* C8 happens: detect_changes returned on a single observation, one whose rate
\* no division survives.
C8_Witness ==
    /\ d_pc = "returned"
    /\ Len(d_rates) = 1
    /\ d_rates[1].rate = 0

\* C11: a detector with change_threshold <= 0 or max_duration_days <= 0
\* produces an error before any pair of observations is scanned; it never
\* returns a list of ChangePoints computed under such a configuration.
C11_InvalidConfigurationFails ==
    (change_threshold <= 0 \/ max_duration_days <= 0) =>
        ~(d_pc = "returned" /\ d_result # <<>>)

\* C12: an observation of rate zero or less, used as start_rate, is stopped
\* by a validation error before the division: detect_changes never
\* propagates a division by zero (the exception of d_pc = "raised") and never
\* emits a ChangePoint whose start_rate is <= 0.
C12_NoDivisionByZero ==
    /\ d_pc # "raised"
    /\ \A k \in DOMAIN d_candidates : d_candidates[k].start_rate > 0

\* C19: detect_changes is a pure function of its argument and the
\* configuration: a call leaves the caller's list (contents and order),
\* change_threshold and max_duration_days unchanged and leaves no state
\* behind, so what a call gives after any sequence of earlier calls on the
\* detector is what a fresh detector of the same configuration gives.
C19_DetectChangesIsPure ==
    [][(d_pc = "ready" /\ d_pc' # "ready") =>
           LET fresh == DetectChanges(d_rates, change_threshold,
                                      max_duration_days)
           IN  /\ d_rates' = d_rates
               /\ change_threshold' = change_threshold
               /\ max_duration_days' = max_duration_days
               /\ d_pc' = "raised" <=> fresh.raised
               /\ d_pc' = "returned" => d_result' = fresh.result]_vars

\* C19 happens: a detector that had returned ChangePoints before was called
\* a second time, with a list that is not in date order, and returned.
C19_Witness ==
    /\ d_calls >= 2
    /\ d_pc = "returned"
    /\ d_result # <<>>
    /\ Len(d_rates) >= 2
    /\ d_rates[1].timestamp.day > d_rates[2].timestamp.day

\* the ChangePoints the scan created: the candidates and the returned ones
Created == {d_candidates[k] : k \in DOMAIN d_candidates}
               \cup {d_result[k] : k \in DOMAIN d_result}

\* C13: every ChangePoint the scan creates, candidate or returned, has
\* start_date < end_date, duration_days = end_date - start_date in days,
\* 1 <= duration_days <= max_duration_days and
\* |change_percent| >= change_threshold.
C13_ChangePointInvariants ==
    \A c \in Created :
        /\ c.start_date.day < c.end_date.day
        /\ c.duration_days = c.end_date.day - c.start_date.day
        /\ 1 <= c.duration_days
        /\ c.duration_days <= max_duration_days
        /\ FloatCmp(FloatAbs(c.change_percent),
                    FloatOfInt(change_threshold)) >= 0

\* C13 happens: a scan created a ChangePoint as long as the window, one of a
\* single day and one whose change is exactly the threshold.
C13_Witness ==
    /\ d_pc = "returned"
    /\ \E c \in Created : c.duration_days = max_duration_days
    /\ \E c \in Created : c.duration_days = 1
    /\ \E c \in Created :
           FloatCmp(FloatAbs(c.change_percent),
                    FloatOfInt(change_threshold)) = 0

SharesDate(a, b) ==
    ~(a.end_date.day < b.start_date.day \/ b.end_date.day < a.start_date.day)

\* C14: every candidate that is absent from the returned list shares a
\* calendar date with a returned ChangePoint whose |change_percent| is >= its
\* own; whenever there are candidates, one of maximal |change_percent| is
\* returned.
C14_KeepsMostSignificant ==
    d_pc = "returned" =>
        /\ \A k \in DOMAIN d_candidates :
               (\A m \in DOMAIN d_result : d_result[m] # d_candidates[k]) =>
                   \E m \in DOMAIN d_result :
                       /\ SharesDate(d_candidates[k], d_result[m])
                       /\ FloatCmp(FloatAbs(d_result[m].change_percent),
                                   FloatAbs(d_candidates[k].change_percent))
                              >= 0
        /\ d_candidates # <<>> =>
               \E m \in DOMAIN d_result :
                   \A k \in DOMAIN d_candidates :
                       FloatCmp(FloatAbs(d_result[m].change_percent),
                                FloatAbs(d_candidates[k].change_percent)) >= 0

\* C14 happens: the scan emitted a smaller change before a larger one that
\* shares a date with it, and the larger one was kept, not the smaller.
C14_Witness ==
    /\ d_pc = "returned"
    /\ \E k, n \in DOMAIN d_candidates :
           /\ k < n
           /\ SharesDate(d_candidates[k], d_candidates[n])
           /\ FloatCmp(FloatAbs(d_candidates[n].change_percent),
                       FloatAbs(d_candidates[k].change_percent)) = 1
           /\ \E m \in DOMAIN d_result : d_result[m] = d_candidates[n]
           /\ \A m \in DOMAIN d_result : d_result[m] # d_candidates[k]

\* C15: the returned list is a subset of the candidates: every returned
\* ChangePoint is one of the candidates with all eight fields unchanged, no
\* candidate is returned twice, and the list is empty iff there is no
\* candidate.
C15_ResultIsSubset ==
    d_pc = "returned" =>
        /\ \A m \in DOMAIN d_result :
               \E k \in DOMAIN d_candidates : d_candidates[k] = d_result[m]
        /\ \A m, n \in DOMAIN d_result :
               d_result[m] = d_result[n] => m = n
        /\ d_result = <<>> <=> d_candidates = <<>>

\* C15 happens: some candidates were returned and some were not.
C15_Witness ==
    /\ d_pc = "returned"
    /\ Len(d_result) >= 2
    /\ Len(d_candidates) >= Len(d_result) + 2

----------------------------------------------------------------------------
(* Properties of _calculate_severity, under SeveritySpec *)

IsHigh(c, d) ==
    FloatCmp(c, FloatOfInt(5)) = 1 \/ (FloatCmp(c, FloatOfInt(3)) = 1 /\ d < 7)
IsMedium(c, d) ==
    FloatCmp(c, FloatOfInt(3)) = 1 \/ (FloatCmp(c, FloatOfInt(2)) = 1 /\ d < 14)

\* C5: _calculate_severity(c, d) is 'high' iff c > 5.0 or (c > 3.0 and d < 7);
\* otherwise 'medium' iff c > 3.0 or (c > 2.0 and d < 14); otherwise 'low'; it
\* is always one of low, medium, high.
C5_SeverityReference ==
    s_pc = "returned" =>
        /\ s_result \in {"low", "medium", "high"}
        /\ s_result = "high" <=> IsHigh(s_change, s_days)
        /\ s_result = "medium" <=>
               (~IsHigh(s_change, s_days) /\ IsMedium(s_change, s_days))
        /\ s_result = "low" <=>
               (~IsHigh(s_change, s_days) /\ ~IsMedium(s_change, s_days))

\* C5 happens: a change of at most 5.0 is 'high' by its short duration.
C5_Witness ==
    /\ s_pc = "returned"
    /\ s_result = "high"
    /\ FloatCmp(s_change, FloatOfInt(5)) # 1

\* C6: a change of exactly 5.0 is 'high' only when duration_days < 7 and
\* 'medium' for every duration_days >= 7 (5.00 -> 5.25 over 20 days is
\* 'medium'); a change of exactly 3.0 is never 'high'; a change of exactly 2.0
\* with duration_days >= 14 is 'low'.
C6_ExclusiveBoundaries ==
    s_pc = "returned" =>
        /\ FloatCmp(s_change, FloatOfInt(5)) = 0 =>
               /\ s_result = "high" <=> s_days < 7
               /\ s_days >= 7 => s_result = "medium"
        /\ (s_change = FloatAbs(ChangePercent(500, 525)) /\ s_days = 20) =>
               s_result = "medium"
        /\ FloatCmp(s_change, FloatOfInt(3)) = 0 => s_result # "high"
        /\ (FloatCmp(s_change, FloatOfInt(2)) = 0 /\ s_days >= 14) =>
               s_result = "low"

\* C6 happens: the change of 5.00 -> 5.25 over 20 days has been classified.
C6_Witness ==
    /\ s_pc = "returned"
    /\ s_change = FloatAbs(ChangePercent(500, 525))
    /\ FloatCmp(s_change, FloatOfInt(5)) = 0
    /\ s_days = 20

----------------------------------------------------------------------------
(* The store: DatabaseManager *)

\* rows ascending by timestamp, rows of equal timestamp in their given order
RECURSIVE SortByTimestamp(_)
SortByTimestamp(rows) ==
    IF rows = <<>> THEN <<>>
    ELSE LET n == Len(rows)
             x == rows[n]
             s == SortByTimestamp(SubSeq(rows, 1, n - 1))
             k == Cardinality({m \in DOMAIN s :
                     DateTimeLE(s[m].timestamp, x.timestamp)})
         IN  SubSeq(s, 1, k) \o <<x>> \o SubSeq(s, k + 1, Len(s))

\* the row of exchange_rates that save_exchange_rate inserts: the timestamp
\* as ISO text, the flag as an integer
ExchangeRateRow(rate) ==
    [currency |-> rate.currency,
     rate |-> rate.rate,
     timestamp |-> IsoFormat(rate.timestamp),
     is_valid |-> IF rate.is_valid THEN 1 ELSE 0]

\* _row_to_exchange_rate
RowToExchangeRate(row) ==
    ExchangeRate(row.currency, FromIsoFormat(row.timestamp), row.rate,
                 row.is_valid # 0)

SelectRows_AnyCurrency(rows, currency) ==
    SelectSeq(rows, LAMBDA row : row.is_valid = 1)

SelectRows_AnyValidity(rows, currency) ==
    SelectSeq(rows, LAMBDA row : row.currency = currency)

\* WHERE currency = ? AND is_valid = 1, in the order of the table
RECURSIVE SelectRows(_, _)
SelectRows(rows, currency) ==
    IF rows = <<>> THEN <<>>
    ELSE LET rest == SelectRows(Tail(rows), currency)
         IN  IF Head(rows).currency = currency /\ Head(rows).is_valid = 1
             THEN <<Head(rows)>> \o rest
             ELSE rest

\* ORDER BY timestamp ASC: every arrangement of the rows that ascends in the
\* TEXT order of the column; SQL leaves the order of rows of equal timestamp
\* open
OrderByTimestamp(rows) ==
    {[k \in DOMAIN rows |-> rows[f[k]]] :
     f \in {g \in [DOMAIN rows -> DOMAIN rows] :
            /\ \A a, b \in DOMAIN rows : g[a] = g[b] => a = b
            /\ \A a, b \in DOMAIN rows :
                   a < b => TextLE(rows[g[a]].timestamp,
                                   rows[g[b]].timestamp)}}

\* SELECT * FROM exchange_rates WHERE currency = ? AND is_valid = 1
\* ORDER BY timestamp ASC, each row through _row_to_exchange_rate: the lists
\* the query can return
GetRatesByCurrency(table, currency) ==
    {[k \in DOMAIN rows |-> RowToExchangeRate(rows[k])] :
     rows \in OrderByTimestamp(SelectRows(table, currency))}

RateAlert_DefaultCurrency(currency, change) ==
    [currency |-> "EUR",
     start_date |-> change.start_date,
     end_date |-> change.end_date,
     start_rate |-> change.start_rate,
     end_rate |-> change.end_rate,
     change_percent |-> change.change_percent,
     duration_days |-> change.duration_days,
     alert_type |-> change.alert_type,
     severity |-> change.severity]

\* the RateAlert save_alerts_to_database builds from a ChangePoint; its id is
\* None and its detection timestamp is left out
RateAlert(currency, change) ==
    [currency |-> currency,
     start_date |-> change.start_date,
     end_date |-> change.end_date,
     start_rate |-> change.start_rate,
     end_rate |-> change.end_rate,
     change_percent |-> change.change_percent,
     duration_days |-> change.duration_days,
     alert_type |-> change.alert_type,
     severity |-> change.severity]

\* the row of rate_alerts that save_rate_alert inserts under the next row id:
\* the two dates as ISO text
RateAlertRow(id, alert) ==
    [id |-> id,
     currency |-> alert.currency,
     start_date |-> IsoFormat(alert.start_date),
     end_date |-> IsoFormat(alert.end_date),
     start_rate |-> alert.start_rate,
     end_rate |-> alert.end_rate,
     change_percent |-> alert.change_percent,
     duration_days |-> alert.duration_days,
     alert_type |-> alert.alert_type,
     severity |-> alert.severity]

\* the tables the invocations start from: for each currency a date-ascending
\* series with one valid row per date
SeriesOf(currency, f) ==
    [k \in 1 .. Cardinality(DOMAIN f) |->
        ExchangeRateRow(
            ExchangeRate(currency, Midnight(SortedDates(DOMAIN f)[k]),
                         f[SortedDates(DOMAIN f)[k]], TRUE))]

StoreSeries(currency) ==
    {SeriesOf(currency, f) :
     f \in UNION {[D -> StoreRates] : D \in SUBSET StoreDates}}

StoreTables ==
    {e \o u : e \in StoreSeries("EUR"), u \in StoreSeries("USD")}

----------------------------------------------------------------------------
(* analyze_exchange_rates(c) and, inside it, save_alerts_to_database *)

Init ==
    /\ exchange_rates \in {tb \in StoreTables : Len(tb) <= MaxRows}
    /\ rate_alerts = <<>>
    /\ pc = [c \in Currencies |-> "idle"]
    /\ rates = [c \in Currencies |-> <<>>]
    /\ changes = [c \in Currencies |-> <<>>]
    /\ idx = [c \in Currencies |-> 0]
    /\ saved_count = [c \in Currencies |-> 0]
    /\ save_ret = [c \in Currencies |-> -1]
    /\ ret = [c \in Currencies |-> <<>>]
    /\ failed = [c \in Currencies |-> {}]
    /\ base = [c \in Currencies |-> 0]
    /\ seen = [c \in Currencies |-> 0]
    /\ fetched = [c \in Currencies |-> <<>>]
    /\ runs = [c \in Currencies |-> 0]
    /\ clean = [c \in Currencies |-> TRUE]
    /\ database_available = TRUE
    /\ outcome = [c \in Currencies |-> "none"]
    /\ a_saved = <<>>
    /\ a_query = "none"
    /\ a_got = <<>>
    /\ change_threshold = 2
    /\ max_duration_days = 60
    /\ DetectIdle
    /\ SeverityIdle

AlertsOf(table, c) == {k \in DOMAIN table : table[k].currency = c}

AnalyzeStart_Propagates(c) ==
    /\ pc[c] = "idle"
    /\ base' = [base EXCEPT ![c] = Cardinality(AlertsOf(rate_alerts, c))]
    /\ runs' = [runs EXCEPT ![c] = @ + 1]
    /\ IF ~database_available
       THEN /\ pc' = [pc EXCEPT ![c] = "returned"]
            /\ ret' = [ret EXCEPT ![c] = <<>>]
            /\ outcome' = [outcome EXCEPT ![c] = "unavailable"]
            /\ UNCHANGED <<seen, fetched, rates, changes, idx, saved_count>>
       ELSE
       /\ seen' = [seen EXCEPT ![c] = Len(exchange_rates)]
       /\ \E got \in GetRatesByCurrency(exchange_rates, c) :
          \E loaded \in {SortByTimestamp(got)} :
          \E out \in {DetectChanges(loaded, change_threshold,
                                    max_duration_days)} :
              /\ fetched' = [fetched EXCEPT ![c] = got]
              /\ rates' = [rates EXCEPT ![c] = loaded]
              /\ IF loaded = <<>>
                 THEN /\ pc' = [pc EXCEPT ![c] = "returned"]
                      /\ ret' = [ret EXCEPT ![c] = <<>>]
                      /\ outcome' = [outcome EXCEPT ![c] = "no_rates"]
                      /\ UNCHANGED <<changes, idx, saved_count>>
                 ELSE IF out.raised
                 THEN /\ pc' = [pc EXCEPT ![c] = "raised"]
                      /\ UNCHANGED ret
                      /\ outcome' = [outcome EXCEPT ![c] = "detect_raised"]
                      /\ UNCHANGED <<changes, idx, saved_count>>
                 ELSE /\ pc' = [pc EXCEPT ![c] = "saving"]
                      /\ changes' = [changes EXCEPT ![c] = out.result]
                      /\ idx' = [idx EXCEPT ![c] = 1]
                      /\ saved_count' = [saved_count EXCEPT ![c] = 0]
                      /\ outcome' = [outcome EXCEPT ![c] = "detected"]
                      /\ UNCHANGED ret
    /\ UNCHANGED <<exchange_rates, rate_alerts, save_ret, failed, clean,
                   database_available, alertVars,
                   change_threshold, max_duration_days, detectVars,
                   severityVars>>

\* analyze_exchange_rates(c) up to the call of save_alerts_to_database: the
\* flag is tested, the rates are queried and sorted and detect_changes runs;
\* without the database, without rates, and in the handler of the try when
\* detect_changes raises, it returns []
AnalyzeStart(c) ==
    /\ pc[c] = "idle"
    /\ base' = [base EXCEPT ![c] = Cardinality(AlertsOf(rate_alerts, c))]
    /\ runs' = [runs EXCEPT ![c] = @ + 1]
    /\ IF ~database_available
       THEN /\ pc' = [pc EXCEPT ![c] = "returned"]
            /\ ret' = [ret EXCEPT ![c] = <<>>]
            /\ outcome' = [outcome EXCEPT ![c] = "unavailable"]
            /\ UNCHANGED <<seen, fetched, rates, changes, idx, saved_count>>
       ELSE
       /\ seen' = [seen EXCEPT ![c] = Len(exchange_rates)]
       /\ \E got \in GetRatesByCurrency(exchange_rates, c) :
          \E loaded \in {SortByTimestamp(got)} :
          \E out \in {DetectChanges(loaded, change_threshold,
                                    max_duration_days)} :
              /\ fetched' = [fetched EXCEPT ![c] = got]
              /\ rates' = [rates EXCEPT ![c] = loaded]
              /\ IF loaded = <<>>
                 THEN /\ pc' = [pc EXCEPT ![c] = "returned"]
                      /\ ret' = [ret EXCEPT ![c] = <<>>]
                      /\ outcome' = [outcome EXCEPT ![c] = "no_rates"]
                      /\ UNCHANGED <<changes, idx, saved_count>>
                 ELSE IF out.raised
                 THEN /\ pc' = [pc EXCEPT ![c] = "returned"]
                      /\ ret' = [ret EXCEPT ![c] = <<>>]
                      /\ outcome' = [outcome EXCEPT ![c] = "detect_raised"]
                      /\ UNCHANGED <<changes, idx, saved_count>>
                 ELSE /\ pc' = [pc EXCEPT ![c] = "saving"]
                      /\ changes' = [changes EXCEPT ![c] = out.result]
                      /\ idx' = [idx EXCEPT ![c] = 1]
                      /\ saved_count' = [saved_count EXCEPT ![c] = 0]
                      /\ outcome' = [outcome EXCEPT ![c] = "detected"]
                      /\ UNCHANGED ret
    /\ UNCHANGED <<exchange_rates, rate_alerts, save_ret, failed, clean,
                   database_available, alertVars,
                   change_threshold, max_duration_days, detectVars,
                   severityVars>>

\* analyze_exchange_rates(c) when DatabaseManager() or get_rates_by_currency
\* raises: the handler of the try returns []
AnalyzeLoadRaises(c) ==
    /\ pc[c] = "idle"
    /\ database_available
    /\ base' = [base EXCEPT ![c] = Cardinality(AlertsOf(rate_alerts, c))]
    /\ runs' = [runs EXCEPT ![c] = @ + 1]
    /\ pc' = [pc EXCEPT ![c] = "returned"]
    /\ ret' = [ret EXCEPT ![c] = <<>>]
    /\ outcome' = [outcome EXCEPT ![c] = "load_raised"]
    /\ UNCHANGED <<exchange_rates, rate_alerts, rates, changes, idx,
                   saved_count, save_ret, failed, seen, fetched, clean,
                   database_available, alertVars,
                   change_threshold, max_duration_days, detectVars,
                   severityVars>>

SaveRateAlert_Deduplicates(c) ==
    /\ pc[c] = "saving"
    /\ idx[c] <= Len(changes[c])
    /\ LET row == RateAlertRow(Len(rate_alerts) + 1,
                               RateAlert(c, changes[c][idx[c]]))
       IN  rate_alerts' =
               IF \E m \in DOMAIN rate_alerts :
                      /\ rate_alerts[m].currency = row.currency
                      /\ rate_alerts[m].start_date = row.start_date
                      /\ rate_alerts[m].end_date = row.end_date
               THEN rate_alerts
               ELSE Append(rate_alerts, row)
    /\ saved_count' = [saved_count EXCEPT ![c] = @ + 1]
    /\ idx' = [idx EXCEPT ![c] = @ + 1]
    /\ UNCHANGED <<exchange_rates, pc, rates, changes, save_ret, ret, failed,
                   base, seen, fetched, runs, clean, database_available, outcome, alertVars,
                   change_threshold,
                   max_duration_days, detectVars, severityVars>>

\* one turn of the for loop: save_rate_alert inserts and commits the row
SaveRateAlert(c) ==
    /\ pc[c] = "saving"
    /\ idx[c] <= Len(changes[c])
    /\ rate_alerts' = Append(rate_alerts,
                             RateAlertRow(Len(rate_alerts) + 1,
                                          RateAlert(c, changes[c][idx[c]])))
    /\ saved_count' = [saved_count EXCEPT ![c] = @ + 1]
    /\ idx' = [idx EXCEPT ![c] = @ + 1]
    /\ UNCHANGED <<exchange_rates, pc, rates, changes, save_ret, ret, failed,
                   base, seen, fetched, runs, clean, database_available, outcome, alertVars,
                   change_threshold,
                   max_duration_days, detectVars, severityVars>>

\* one turn of the for loop in which save_rate_alert raises: the insert is
\* rolled back, the handler of save_alerts_to_database returns 0, and
\* analyze_exchange_rates returns changes
SaveRateAlertRaises(c) ==
    /\ pc[c] = "saving"
    /\ idx[c] <= Len(changes[c])
    /\ failed' = [failed EXCEPT ![c] = @ \cup {idx[c]}]
    /\ save_ret' = [save_ret EXCEPT ![c] = 0]
    /\ ret' = [ret EXCEPT ![c] = changes[c]]
    /\ pc' = [pc EXCEPT ![c] = "returned"]
    /\ clean' = [clean EXCEPT ![c] = FALSE]
    /\ UNCHANGED <<exchange_rates, rate_alerts, rates, changes, idx,
                   saved_count, base, seen, fetched, runs,
                   database_available, outcome, alertVars,
                   change_threshold, max_duration_days, detectVars,
                   severityVars>>

\* the loop is over: save_alerts_to_database returns saved_count and
\* analyze_exchange_rates returns changes
SaveAlertsReturn(c) ==
    /\ pc[c] = "saving"
    /\ idx[c] > Len(changes[c])
    /\ save_ret' = [save_ret EXCEPT ![c] = saved_count[c]]
    /\ ret' = [ret EXCEPT ![c] = changes[c]]
    /\ pc' = [pc EXCEPT ![c] = "returned"]
    /\ UNCHANGED <<exchange_rates, rate_alerts, rates, changes, idx,
                   saved_count, failed, base, seen, fetched, runs, clean,
                   database_available, outcome, alertVars,
                   change_threshold, max_duration_days, detectVars,
                   severityVars>>

\* the caller invokes analyze_exchange_rates(c) once more: the locals of the
\* invocation that returned are gone
AnalyzeAgain(c) ==
    /\ pc[c] = "returned"
    /\ runs[c] < MaxRuns
    /\ pc' = [pc EXCEPT ![c] = "idle"]
    /\ rates' = [rates EXCEPT ![c] = <<>>]
    /\ changes' = [changes EXCEPT ![c] = <<>>]
    /\ idx' = [idx EXCEPT ![c] = 0]
    /\ saved_count' = [saved_count EXCEPT ![c] = 0]
    /\ save_ret' = [save_ret EXCEPT ![c] = -1]
    /\ ret' = [ret EXCEPT ![c] = <<>>]
    /\ failed' = [failed EXCEPT ![c] = {}]
    /\ UNCHANGED <<exchange_rates, rate_alerts, base, seen, fetched, runs,
                   clean,
                   database_available, outcome, alertVars,
                   change_threshold, max_duration_days, detectVars,
                   severityVars>>

\* the rates saved: of either currency, valid or not, the rate 5.00 at the
\* later time of day 0 and 4.70 at the other times
SaveInputs ==
    {ExchangeRate(c, DateTime(ts[1], ts[2]),
                  IF ts = <<0, 9>> THEN 500 ELSE 470, v) :
     c \in Currencies, ts \in SaveTimes, v \in BOOLEAN}

\* save_exchange_rate(rate): the row is inserted and committed
SaveExchangeRate ==
    /\ Len(exchange_rates) < MaxSaves
    /\ \E rate \in SaveInputs :
           exchange_rates' = Append(exchange_rates, ExchangeRateRow(rate))
    /\ UNCHANGED <<rate_alerts, pc, rates, changes, idx, saved_count,
                   save_ret, ret, failed, base, seen, fetched, runs, clean,
                   database_available, outcome, alertVars,
                   change_threshold, max_duration_days, detectVars,
                   severityVars>>

Next ==
    \E c \in Currencies :
        \/ AnalyzeStart(c)
        \/ SaveRateAlert(c)
        \/ SaveRateAlertRaises(c)
        \/ SaveAlertsReturn(c)

Spec == Init /\ [][Next]_vars

\* the invocations of Spec, and the caller of analyze_exchange_rates("EUR")
\* invoking it again each time it has returned
RerunNext == Next \/ AnalyzeAgain("EUR")

RerunSpec == Init /\ [][RerunNext]_vars

\* rate saves on a table that starts empty, and the invocations reading it
SaveInit ==
    /\ StoreIdle
    /\ change_threshold = 2
    /\ max_duration_days = 60
    /\ DetectIdle
    /\ SeverityIdle

SaveNext == SaveExchangeRate \/ \E c \in Currencies : AnalyzeStart(c)

SaveSpec == SaveInit /\ [][SaveNext]_vars

\* the invocations with their failures: the tables may hold rates of 0, the
\* database module may be missing, and the query may raise
FaultDates == {0, 5, 10}
FaultRates == {0, 470, 500}

FaultSeries(currency) ==
    {SeriesOf(currency, f) :
     f \in UNION {[D -> FaultRates] : D \in SUBSET FaultDates}}

FaultTables ==
    {e \o u : e \in FaultSeries("EUR"), u \in FaultSeries("USD")}

FaultInit ==
    /\ exchange_rates \in {tb \in FaultTables : Len(tb) <= MaxRows}
    /\ database_available \in BOOLEAN
    /\ rate_alerts = <<>>
    /\ pc = [c \in Currencies |-> "idle"]
    /\ rates = [c \in Currencies |-> <<>>]
    /\ changes = [c \in Currencies |-> <<>>]
    /\ idx = [c \in Currencies |-> 0]
    /\ saved_count = [c \in Currencies |-> 0]
    /\ save_ret = [c \in Currencies |-> -1]
    /\ ret = [c \in Currencies |-> <<>>]
    /\ failed = [c \in Currencies |-> {}]
    /\ base = [c \in Currencies |-> 0]
    /\ seen = [c \in Currencies |-> 0]
    /\ fetched = [c \in Currencies |-> <<>>]
    /\ runs = [c \in Currencies |-> 0]
    /\ clean = [c \in Currencies |-> TRUE]
    /\ outcome = [c \in Currencies |-> "none"]
    /\ a_saved = <<>>
    /\ a_query = "none"
    /\ a_got = <<>>
    /\ change_threshold = 2
    /\ max_duration_days = 60
    /\ DetectIdle
    /\ SeverityIdle

FaultNext ==
    \E c \in Currencies :
        \/ AnalyzeStart(c)
        \/ AnalyzeLoadRaises(c)
        \/ SaveRateAlert(c)
        \/ SaveRateAlertRaises(c)
        \/ SaveAlertsReturn(c)

FaultSpec == FaultInit /\ [][FaultNext]_vars

----------------------------------------------------------------------------
(* The alert store: save_rate_alert and get_rate_alerts *)

MaxAlerts == 3

\* start dates of the alerts saved: two times of day 0 and one of day 5
AlertTimes == {<<0, 0>>, <<0, 9>>, <<5, 0>>}

\* the alerts saved: a rise of 2.04% from 4.90 and a fall of 6% from 5.00,
\* each starting and ending at the same instant
AlertInputs ==
    {[currency |-> c,
      start_date |-> DateTime(ts[1], ts[2]),
      end_date |-> DateTime(ts[1], ts[2]),
      start_rate |-> q[1],
      end_rate |-> q[2],
      change_percent |-> q[3],
      duration_days |-> 0,
      alert_type |-> q[4],
      severity |-> q[5]] :
     c \in Currencies, ts \in AlertTimes,
     q \in {<<490, 500, Float(204, 100, 0), "positive", "medium">>,
            <<500, 470, Float(-6, 1, 0), "negative", "high">>}}

\* WHERE 1=1, and AND currency = ? when a currency is given ("" stands for
\* no currency)
SelectAlerts(rows, currency) ==
    IF currency = "" THEN rows
    ELSE SelectSeq(rows, LAMBDA row : row.currency = currency)

OrderByStartDateDesc_Ascending(rows) ==
    {[k \in DOMAIN rows |-> rows[f[k]]] :
     f \in {g \in [DOMAIN rows -> DOMAIN rows] :
            /\ \A a, b \in DOMAIN rows : g[a] = g[b] => a = b
            /\ \A a, b \in DOMAIN rows :
                   a < b => TextLE(rows[g[a]].start_date,
                                   rows[g[b]].start_date)}}

\* ORDER BY start_date DESC: every arrangement of the rows that descends in
\* the TEXT order of the column
OrderByStartDateDesc(rows) ==
    {[k \in DOMAIN rows |-> rows[f[k]]] :
     f \in {g \in [DOMAIN rows -> DOMAIN rows] :
            /\ \A a, b \in DOMAIN rows : g[a] = g[b] => a = b
            /\ \A a, b \in DOMAIN rows :
                   a < b => TextLE(rows[g[b]].start_date,
                                   rows[g[a]].start_date)}}

\* _row_to_rate_alert: the two dates parsed back from ISO text
RowToRateAlert(row) ==
    [id |-> row.id,
     currency |-> row.currency,
     start_date |-> FromIsoFormat(row.start_date),
     end_date |-> FromIsoFormat(row.end_date),
     start_rate |-> row.start_rate,
     end_rate |-> row.end_rate,
     change_percent |-> row.change_percent,
     duration_days |-> row.duration_days,
     alert_type |-> row.alert_type,
     severity |-> row.severity]

\* get_rate_alerts(currency), without start_date and end_date: the lists the
\* query can return
GetRateAlerts(table, currency) ==
    {[k \in DOMAIN rows |-> RowToRateAlert(rows[k])] :
     rows \in OrderByStartDateDesc(SelectAlerts(table, currency))}

AlertInit ==
    /\ StoreIdle
    /\ change_threshold = 2
    /\ max_duration_days = 60
    /\ DetectIdle
    /\ SeverityIdle

\* save_rate_alert(alert): the row is inserted and committed, and the row id
\* returned
SaveRateAlertCall ==
    /\ Len(rate_alerts) < MaxAlerts
    /\ \E alert \in AlertInputs :
       \E id \in {Len(rate_alerts) + 1} :
           /\ rate_alerts' = Append(rate_alerts, RateAlertRow(id, alert))
           /\ a_saved' = Append(a_saved, [alert |-> alert, id |-> id])
    /\ a_query' = "none"
    /\ a_got' = <<>>
    /\ UNCHANGED <<exchange_rates, pc, rates, changes, idx, saved_count,
                   save_ret, ret, failed, base, seen, fetched, runs, clean,
                   database_available, outcome, change_threshold,
                   max_duration_days, detectVars, severityVars>>

\* get_rate_alerts(currency)
GetRateAlertsCall ==
    /\ a_query = "none"
    /\ \E currency \in Currencies \cup {""} :
       \E got \in GetRateAlerts(rate_alerts, currency) :
           /\ a_query' = currency
           /\ a_got' = got
    /\ UNCHANGED <<exchange_rates, rate_alerts, pc, rates, changes, idx,
                   saved_count, save_ret, ret, failed, base, seen, fetched,
                   runs, clean, database_available, outcome, a_saved,
                   change_threshold, max_duration_days, detectVars,
                   severityVars>>

AlertNext == SaveRateAlertCall \/ GetRateAlertsCall

AlertSpec == AlertInit /\ [][AlertNext]_vars

----------------------------------------------------------------------------
(* Properties of the orchestration, under Spec *)

\* alert rows of currency c appended since its invocation began
PersistedBy(c) == Cardinality(AlertsOf(rate_alerts, c)) - base[c]

\* C9: the orchestration reports to its caller both the full list of resolved
\* ChangePoints and the number of alerts persisted, also when some saves fail:
\* once it has returned, the list is the resolved list and the count (the
\* value save_alerts_to_database returns) is the number of alert rows the
\* invocation appended.
C9_ReportsListAndCount ==
    \A c \in Currencies :
        (pc[c] = "returned" /\ save_ret[c] # -1) =>
            /\ ret[c] = changes[c]
            /\ save_ret[c] = PersistedBy(c)

\* C10: persistence failures are isolated per alert: every ChangePoint whose
\* own save does not fail ends up as a persisted alert row; a failure on one
\* alert never prevents the alerts after it from being saved.
C10_FailuresIsolated ==
    \A c \in Currencies :
        pc[c] = "returned" =>
            \A k \in DOMAIN changes[c] \ failed[c] :
                \E m \in AlertsOf(rate_alerts, c) :
                    /\ rate_alerts[m].start_date =
                           IsoFormat(changes[c][k].start_date)
                    /\ rate_alerts[m].end_date =
                           IsoFormat(changes[c][k].end_date)
                    /\ rate_alerts[m].change_percent =
                           changes[c][k].change_percent

\* the alert rows of currency c that its invocation appended, in table order
AppendedBy(c) ==
    LET rows == SelectSeq(rate_alerts, LAMBDA row : row.currency = c)
    IN  SubSeq(rows, base[c] + 1, Len(rows))

\* C16: when no save fails, save_alerts_to_database(changes, currency)
\* appends exactly one alert row per ChangePoint of the list, in list order,
\* each tagged with the currency and carrying the ChangePoint's start_date,
\* end_date, start_rate, end_rate, change_percent, duration_days, direction
\* and severity, and returns len(changes).
C16_OneAlertPerChangePoint ==
    \A c \in Currencies :
        (pc[c] = "returned" /\ save_ret[c] # -1 /\ failed[c] = {}) =>
            /\ Len(AppendedBy(c)) = Len(changes[c])
            /\ save_ret[c] = Len(changes[c])
            /\ \A k \in DOMAIN changes[c] :
                   LET row == AppendedBy(c)[k]
                       change == changes[c][k]
                   IN  /\ row.currency = c
                       /\ FromIsoFormat(row.start_date) = change.start_date
                       /\ FromIsoFormat(row.end_date) = change.end_date
                       /\ row.start_rate = change.start_rate
                       /\ row.end_rate = change.end_rate
                       /\ row.change_percent = change.change_percent
                       /\ row.duration_days = change.duration_days
                       /\ row.alert_type = change.alert_type
                       /\ row.severity = change.severity

\* C16 happens: an invocation saved two or more ChangePoints without a
\* failure and returned.
C16_Witness ==
    \E c \in Currencies :
        /\ pc[c] = "returned" /\ save_ret[c] # -1 /\ failed[c] = {}
        /\ Len(changes[c]) >= 2
        /\ Len(AppendedBy(c)) >= 2

\* the alert rows of currency c, in table order
AlertRows(c) == SelectSeq(rate_alerts, LAMBDA row : row.currency = c)

\* every run of currency c so far left the n rows of its n ChangePoints
EveryRunEmitted(c) ==
    LET n == Len(changes[c])
    IN  /\ Len(AlertRows(c)) = runs[c] * n
        /\ \A r \in 0 .. runs[c] - 1 :
               \A k \in 1 .. n :
                   LET row == AlertRows(c)[r * n + k]
                   IN  /\ row.start_date = IsoFormat(changes[c][k].start_date)
                       /\ row.end_date = IsoFormat(changes[c][k].end_date)
                       /\ row.change_percent = changes[c][k].change_percent

\* C17: no deduplication against persisted alerts: k invocations in sequence
\* for one currency over an unchanged series that resolves to n ChangePoints,
\* with no save failure, leave k * n alert rows of that currency, each
\* ChangePoint once per run; no step updates or removes an earlier row.
C17_NoDeduplication ==
    /\ [](\A c \in Currencies :
              (pc[c] = "returned" /\ clean[c]) => EveryRunEmitted(c))
    /\ [][/\ Len(rate_alerts') >= Len(rate_alerts)
          /\ SubSeq(rate_alerts', 1, Len(rate_alerts)) = rate_alerts]_vars

\* C17 happens: a currency was analysed twice or more without a failed save
\* and has ChangePoints.
C17_Witness ==
    \E c \in Currencies :
        /\ pc[c] = "returned" /\ clean[c]
        /\ pc["USD"] = "returned"
        /\ runs[c] >= 2
        /\ Len(changes[c]) >= 2
        /\ Len(AlertRows(c)) >= 4

\* the series of currency c as table exchange_rates holds it
OwnSeries(c) ==
    LET rows == SelectSeq(exchange_rates, LAMBDA row : row.currency = c)
    IN  [k \in DOMAIN rows |->
            ExchangeRate(c, FromIsoFormat(rows[k].timestamp), rows[k].rate,
                         TRUE)]

\* what analyze_exchange_rates(c) returns when nothing else runs
AloneResult(c) ==
    LET out == DetectChanges(OwnSeries(c), change_threshold,
                             max_duration_days)
    IN  IF OwnSeries(c) = <<>> \/ out.raised THEN <<>> ELSE out.result

\* C18: invocations for different currencies are independent under any
\* interleaving of their steps: the list each invocation returns is the list
\* it returns when it runs alone on the same series, and every alert row of
\* currency A describes a ChangePoint detected from the series of A, never
\* from that of B.
C18_CurrenciesIndependent ==
    \A c \in Currencies :
        /\ pc[c] = "returned" => ret[c] = AloneResult(c)
        /\ \A m \in DOMAIN rate_alerts :
               rate_alerts[m].currency = c =>
                   \E k \in DOMAIN AloneResult(c) :
                       LET change == AloneResult(c)[k]
                       IN  /\ FromIsoFormat(rate_alerts[m].start_date) =
                                  change.start_date
                           /\ FromIsoFormat(rate_alerts[m].end_date) =
                                  change.end_date
                           /\ rate_alerts[m].start_rate = change.start_rate
                           /\ rate_alerts[m].end_rate = change.end_rate
                           /\ rate_alerts[m].change_percent =
                                  change.change_percent

\* C18 happens: the two invocations ran interleaved over different series,
\* USD saving its alert between the start and the save of EUR, and both
\* returned a ChangePoint.
C18_Witness ==
    /\ \A c \in Currencies : pc[c] = "returned" /\ Len(ret[c]) >= 1
    /\ ret["EUR"] # ret["USD"]
    /\ Len(rate_alerts) >= 2
    /\ rate_alerts[1].currency = "USD"
    /\ rate_alerts[2].currency = "EUR"
    /\ base["EUR"] = 0 /\ base["USD"] = 0

----------------------------------------------------------------------------
(* Properties of the queries, under SaveSpec *)

\* the rows table exchange_rates held when currency c was queried
Snapshot(c) == SubSeq(exchange_rates, 1, seen[c])

\* how often the row stored for rate is among the rows
Occurrences(rows, rate) ==
    Cardinality({k \in DOMAIN rows : rows[k] = ExchangeRateRow(rate)})

\* C20: after any sequence of rate saves, get_rates_by_currency(c) returns
\* exactly the stored rows whose currency is c and whose is_valid flag is
\* true, ascending by timestamp; rows of other currencies and invalid rows
\* never reach the detector through analyze_exchange_rates.
C20_QueryFiltersAndOrders ==
    \A c \in Currencies :
        runs[c] > 0 =>
            /\ \A k \in DOMAIN fetched[c] :
                   fetched[c][k].currency = c /\ fetched[c][k].is_valid
            /\ \A rate \in SaveInputs :
                   (rate.currency = c /\ rate.is_valid) =>
                       Occurrences(Snapshot(c), rate) =
                           Cardinality({k \in DOMAIN fetched[c] :
                                           fetched[c][k] = rate})
            /\ \A a, b \in DOMAIN fetched[c] :
                   a < b => DateTimeLE(fetched[c][a].timestamp,
                                       fetched[c][b].timestamp)
            /\ \A k \in DOMAIN rates[c] :
                   rates[c][k].currency = c /\ rates[c][k].is_valid

\* C20 happens: a later row was saved before an earlier one of the same
\* currency, a row of the other currency or an invalid row was saved too, and
\* the query returned the two valid rows.
C20_Witness ==
    \E c \in Currencies :
        /\ runs[c] > 0
        /\ seen[c] >= 3
        /\ Len(fetched[c]) = 2
        /\ \E a, b \in 1 .. seen[c] :
               /\ a < b
               /\ exchange_rates[a].currency = c
               /\ exchange_rates[b].currency = c
               /\ exchange_rates[a].is_valid = 1
               /\ exchange_rates[b].is_valid = 1
               /\ exchange_rates[a].timestamp # exchange_rates[b].timestamp
               /\ TextLE(exchange_rates[b].timestamp,
                         exchange_rates[a].timestamp)

----------------------------------------------------------------------------
(* Further properties of detect_changes, under DetectSpec *)

\* the rows of d_rates that detect_changes uses, one per date
UsedRows == {k \in DOMAIN d_rates : UsedForItsDate(d_rates, k)}

DayOf(k) == DateOf(d_rates[k].timestamp)

\* the pair of rows (i, j) is among the candidates
IsCandidate(i, j) ==
    \E k \in DOMAIN d_candidates :
        /\ d_candidates[k].start_date = Midnight(DayOf(i))
        /\ d_candidates[k].end_date = Midnight(DayOf(j))

\* what a scan of every pair of dates keeps: the pairs no longer than the
\* window whose change reaches the threshold
ReferenceCandidates ==
    {ChangePoint(DayOf(p[1]), DayOf(p[2]), d_rates[p[1]].rate,
                 d_rates[p[2]].rate) :
     p \in {q \in UsedRows \X UsedRows :
            /\ DayOf(q[1]) < DayOf(q[2])
            /\ DayOf(q[2]) - DayOf(q[1]) <= max_duration_days
            /\ FloatGE(FloatAbs(ChangePercent(d_rates[q[1]].rate,
                                              d_rates[q[2]].rate)),
                       FloatOfInt(change_threshold))}}

\* C22: early termination is sound: the candidates of the scan, which leaves
\* the inner loop at the first end date beyond the window, are exactly those
\* of a scan that examines every pair of dates and keeps the pairs with
\* duration_days <= max_duration_days and |change_percent| >=
\* change_threshold.
C22_EarlyTerminationSound ==
    d_pc = "returned" =>
        /\ {d_candidates[k] : k \in DOMAIN d_candidates} = ReferenceCandidates
        /\ Len(d_candidates) = Cardinality(ReferenceCandidates)

\* C22 happens: the inner loop was left at an end date beyond the window
\* with a later start date still to scan, which gave a candidate.
C22_Witness ==
    /\ d_pc = "returned"
    /\ \E i, j, m \in UsedRows :
           /\ DayOf(i) < DayOf(j)
           /\ DayOf(j) < DayOf(m)
           /\ DayOf(m) - DayOf(i) > max_duration_days
           /\ IsCandidate(i, j)
           /\ IsCandidate(j, m)

\* C23: the scanner does not rely on the order of its input: for a list with
\* one observation per date, in whatever order, detect_changes returns what
\* it returns for the same observations in date order.
C23_OrderOfInputIrrelevant ==
    (d_pc # "ready" /\ UsedRows = DOMAIN d_rates) =>
        LET ordered == DetectChanges(SortByTimestamp(d_rates),
                                     change_threshold, max_duration_days)
        IN  /\ (d_pc = "raised") <=> ordered.raised
            /\ d_pc = "returned" => d_result = ordered.result

\* C23 happens: a list that is not in date order, one observation per date,
\* gave a ChangePoint.
C23_Witness ==
    /\ d_pc = "returned"
    /\ UsedRows = DOMAIN d_rates
    /\ d_rates # SortByTimestamp(d_rates)
    /\ d_result # <<>>

Magnitude(k) == FloatAbs(d_candidates[k].change_percent)

InResult(k) == \E m \in DOMAIN d_result : d_result[m] = d_candidates[k]

\* candidates k and n, emitted in this order, are of equal magnitude and
\* share a date
TiePair(k, n) ==
    /\ k < n
    /\ FloatCmp(Magnitude(k), Magnitude(n)) = 0
    /\ SharesDate(d_candidates[k], d_candidates[n])

OverlapsGreaterAccepted(k) ==
    \E m \in DOMAIN d_candidates :
        /\ InResult(m)
        /\ FloatCmp(Magnitude(m), Magnitude(k)) = 1
        /\ SharesDate(d_candidates[m], d_candidates[k])

OverlapsEarlierEqualAccepted(k) ==
    \E m \in DOMAIN d_candidates :
        /\ m < k
        /\ InResult(m)
        /\ FloatCmp(Magnitude(m), Magnitude(k)) = 0
        /\ SharesDate(d_candidates[m], d_candidates[k])

\* the scan emits by ascending start_date, then ascending end_date
EmittedInDateOrder ==
    \A k, n \in DOMAIN d_candidates :
        k < n =>
            \/ d_candidates[k].start_date.day < d_candidates[n].start_date.day
            \/ /\ d_candidates[k].start_date = d_candidates[n].start_date
               /\ d_candidates[k].end_date.day < d_candidates[n].end_date.day

\* C24 as stated: of two candidates of equal |change_percent| that share a
\* date and overlap no accepted candidate of strictly greater magnitude, the
\* one emitted first is the one in the final result.
C24_FirstEmittedWins ==
    d_pc = "returned" =>
        \A k, n \in DOMAIN d_candidates :
            (/\ TiePair(k, n)
             /\ ~OverlapsGreaterAccepted(k)
             /\ ~OverlapsGreaterAccepted(n))
            => InResult(k) /\ ~InResult(n)

\* C24, amended: candidates are emitted by ascending start_date, then
\* end_date, and candidates of equal |change_percent| are considered in that
\* order: of two such candidates that share a date and overlap no accepted
\* candidate of strictly greater magnitude, the one emitted first is the one
\* in the final result, provided it overlaps no accepted candidate of equal
\* magnitude that was emitted before it.
C24_FirstEmittedWinsUnlessBlocked ==
    d_pc = "returned" =>
        /\ EmittedInDateOrder
        /\ \A k, n \in DOMAIN d_candidates :
               (/\ TiePair(k, n)
                /\ ~OverlapsGreaterAccepted(k)
                /\ ~OverlapsGreaterAccepted(n)
                /\ ~OverlapsEarlierEqualAccepted(k))
               => InResult(k) /\ ~InResult(n)

\* C24 happens: three candidates of equal magnitude in a chain; the first is
\* accepted, the second shares a date with it and is dropped, and the third,
\* which shares a date with the second only, is accepted.
C24_Witness ==
    /\ d_pc = "returned"
    /\ \E m, k, n \in DOMAIN d_candidates :
           /\ TiePair(m, k)
           /\ TiePair(k, n)
           /\ ~SharesDate(d_candidates[m], d_candidates[n])
           /\ ~OverlapsGreaterAccepted(m)
           /\ ~OverlapsGreaterAccepted(k)
           /\ ~OverlapsGreaterAccepted(n)
           /\ InResult(m) /\ ~InResult(k) /\ InResult(n)

\* exact sums of |change_percent|, as fractions in lowest terms
RatAdd(x, y) ==
    LET n == x.num * y.den + y.num * x.den
        d == x.den * y.den
        g == GCD(n, d)
    IN  [num |-> n \div g, den |-> d \div g]

RatLess(x, y) == x.num * y.den < y.num * x.den

RECURSIVE TotalMagnitude(_)
TotalMagnitude(change_list) ==
    IF change_list = <<>> THEN [num |-> 0, den |-> 1]
    ELSE RatAdd(FloatAbs(Head(change_list).change_percent),
                TotalMagnitude(Tail(change_list)))

RECURSIVE Pick(_, _, _)
\* the candidates whose positions are in S, in the order of the scan
Pick(change_list, S, k) ==
    IF k > Len(change_list) THEN <<>>
    ELSE IF k \in S
         THEN <<change_list[k]>> \o Pick(change_list, S, k + 1)
         ELSE Pick(change_list, S, k + 1)

NonOverlapping(S) ==
    \A k, n \in S : k # n => ~SharesDate(d_candidates[k], d_candidates[n])

\* 5.00, 4.70, 5.00, 4.70 on days 0, 1, 5, 10
GreedyExample ==
    <<Observation(0, 500), Observation(1, 470),
      Observation(5, 500), Observation(10, 470)>>

\* a set of candidates, no two sharing a date, whose |change_percent| sum
\* to more than those of the returned list
BetterSubsets ==
    {S \in SUBSET DOMAIN d_candidates :
        /\ NonOverlapping(S)
        /\ RatLess(TotalMagnitude(d_result),
                   TotalMagnitude(Pick(d_candidates, S, 1)))}

\* C25: the greedy resolver is not globally optimal: for the series 5.00,
\* 4.70, 5.00, 4.70 on days 0, 1, 5, 10 with threshold 2 and window 60 some
\* set of candidates that share no date has a strictly greater sum of
\* |change_percent| than the list detect_changes returns.
C25_GreedyNotOptimal ==
    (/\ d_pc = "returned"
     /\ d_rates = GreedyExample
     /\ change_threshold = 2
     /\ max_duration_days = 60)
    => BetterSubsets # {}

\* C25 happens: detect_changes returned for that series the rise of 6.38%
\* alone, while the two falls of 6% on either side of it share no date.
C25_Witness ==
    /\ d_pc = "returned"
    /\ d_rates = GreedyExample
    /\ change_threshold = 2
    /\ max_duration_days = 60
    /\ Len(d_result) = 1
    /\ d_result[1].start_rate = 470
    /\ \E S \in BetterSubsets : Cardinality(S) = 2

\* the row of d_rates whose rate stands for the date day
SelectedRow(day) ==
    CHOOSE k \in UsedRows : DayOf(k) = day

\* C26: when the list holds several rows of one date, one rate stands for
\* that date in every candidate that starts or ends on it, the rate of the
\* last of those rows in list order; in a list ascending by timestamp, as
\* analyze_exchange_rates hands it over, that row has the latest timestamp
\* of the day; no candidate starts and ends on the same date.
C26_OneRatePerDate ==
    d_pc = "returned" =>
        /\ \A k \in DOMAIN d_candidates :
              LET change == d_candidates[k]
              IN  /\ change.start_date.day # change.end_date.day
                  /\ change.start_rate =
                         d_rates[SelectedRow(change.start_date.day)].rate
                  /\ change.end_rate =
                         d_rates[SelectedRow(change.end_date.day)].rate
        /\ d_rates = SortByTimestamp(d_rates) =>
              \A k \in UsedRows : \A m \in DOMAIN d_rates :
                  DayOf(m) = DayOf(k) =>
                      DateTimeLE(d_rates[m].timestamp, d_rates[k].timestamp)

\* C26 happens: two rows of one date with different rates, the later one
\* last, and a candidate that starts or ends on that date.
C26_Witness ==
    /\ d_pc = "returned"
    /\ d_rates = SortByTimestamp(d_rates)
    /\ \E m, k \in DOMAIN d_rates :
           /\ m < k
           /\ DayOf(m) = DayOf(k)
           /\ d_rates[m].timestamp # d_rates[k].timestamp
           /\ d_rates[m].rate # d_rates[k].rate
           /\ \E n \in DOMAIN d_candidates :
                  \/ d_candidates[n].start_date.day = DayOf(k)
                  \/ d_candidates[n].end_date.day = DayOf(k)

\* |change_percent| of the pair of rows (i, j)
PairMagnitude(i, j) ==
    FloatAbs(ChangePercent(d_rates[i].rate, d_rates[j].rate))

\* C27: both bounds are inclusive: when detect_changes returns, every pair
\* of dates within the window was scanned (its start rate divided, so not
\* zero); a pair whose |change_percent| equals change_threshold exactly,
\* within the window, is a candidate; a pair whose change reaches the
\* threshold and whose duration_days equals max_duration_days is a
\* candidate; a pair with duration_days = max_duration_days + 1 is never
\* one.
C27_BoundsInclusive ==
    d_pc = "returned" =>
        \A i, j \in UsedRows :
            DayOf(i) < DayOf(j) =>
                LET duration_days == DayOf(j) - DayOf(i)
                IN  /\ duration_days <= max_duration_days
                       => d_rates[i].rate # 0
                    /\ (/\ duration_days <= max_duration_days
                        /\ FloatCmp(PairMagnitude(i, j),
                                    FloatOfInt(change_threshold)) = 0)
                       => IsCandidate(i, j)
                    /\ (/\ duration_days = max_duration_days
                        /\ FloatCmp(PairMagnitude(i, j),
                                    FloatOfInt(change_threshold)) >= 0)
                       => IsCandidate(i, j)
                    /\ duration_days = max_duration_days + 1
                       => ~IsCandidate(i, j)

\* C27 happens: a candidate of exactly the threshold, not zero, over exactly
\* the window, and a pair one day longer that is not a candidate.
C27_Witness ==
    /\ d_pc = "returned"
    /\ change_threshold > 0
    /\ \E i, j, m \in UsedRows :
           /\ DayOf(i) < DayOf(j)
           /\ DayOf(j) - DayOf(i) = max_duration_days
           /\ FloatCmp(PairMagnitude(i, j), FloatOfInt(change_threshold)) = 0
           /\ IsCandidate(i, j)
           /\ DayOf(j) - DayOf(m) = max_duration_days + 1
           /\ ~IsCandidate(m, j)

----------------------------------------------------------------------------
(* A further property of _calculate_severity, under SeveritySpec *)

\* low < medium < high
SeverityRank(severity) ==
    CASE severity = "low" -> 1
      [] severity = "medium" -> 2
      [] severity = "high" -> 3

\* C30: severity is monotone: at the same duration_days no larger absolute
\* change has a lower severity than the one returned, and for the same
\* absolute change no longer duration_days has a higher one.
C30_SeverityMonotone ==
    s_pc = "returned" =>
        /\ \A larger \in SeverityInputs :
              FloatCmp(larger, s_change) >= 0 =>
                  SeverityRank(CalculateSeverity(larger, s_days))
                      >= SeverityRank(s_result)
        /\ \A longer \in s_days .. MaxSevDays :
              SeverityRank(CalculateSeverity(s_change, longer))
                  <= SeverityRank(s_result)

\* C30 happens: a 'medium' that a larger change at the same duration makes
\* 'high' and a longer duration of the same change makes 'low'.
C30_Witness ==
    /\ s_pc = "returned"
    /\ s_result = "medium"
    /\ \E larger \in SeverityInputs :
           /\ FloatCmp(larger, s_change) = 1
           /\ CalculateSeverity(larger, s_days) = "high"
    /\ \E longer \in s_days .. MaxSevDays :
           CalculateSeverity(s_change, longer) = "low"

----------------------------------------------------------------------------
(* Further properties of the orchestration *)

\* C28: whatever saves fail, the integer save_alerts_to_database returns is
\* the number of alert rows that call committed; it is never 0 after a row
\* was committed.
C28_ReturnsCommittedCount ==
    \A c \in Currencies :
        save_ret[c] # -1 =>
            /\ save_ret[c] = Len(AppendedBy(c))
            /\ save_ret[c] = 0 => AppendedBy(c) = <<>>

\* the invocation for c ended before detection completed: the database
\* module is missing, there are no rates, the query raised, or detect_changes
\* raised on the rates loaded
EndedEarly(c) ==
    \/ ~database_available
    \/ outcome[c] = "load_raised"
    \/ rates[c] = <<>>
    \/ DetectChanges(rates[c], change_threshold, max_duration_days).raised

\* C29: analyze_exchange_rates never raises to its caller; when the database
\* is unavailable, when there are no rates for the currency, or when loading
\* or detect_changes raises, it returns [] and appends no alert row; an alert
\* row is appended only by an invocation whose detection has completed.
C29_NeverRaisesWritesAfterDetection ==
    /\ [](\A c \in Currencies :
            /\ pc[c] \in {"idle", "saving", "returned"}
            /\ (runs[c] > 0 /\ EndedEarly(c)) =>
                   /\ pc[c] = "returned"
                   /\ ret[c] = <<>>
                   /\ AppendedBy(c) = <<>>)
    /\ [][rate_alerts' # rate_alerts =>
            \E c \in Currencies :
                /\ pc[c] = "saving"
                /\ ~EndedEarly(c)
                /\ idx[c] \in DOMAIN changes[c]
                /\ changes[c] =
                       DetectChanges(rates[c], change_threshold,
                                     max_duration_days).result
                /\ \E row \in {RateAlertRow(Len(rate_alerts) + 1,
                                            RateAlert(c, changes[c][idx[c]]))} :
                       rate_alerts' = Append(rate_alerts, row)]_vars

\* C29 happens: detect_changes raised on a rate of 0 in the invocation for
\* EUR, which returned [], while the invocation for USD appended an alert.
C29_Witness ==
    /\ pc["EUR"] = "returned"
    /\ outcome["EUR"] = "detect_raised"
    /\ \E k \in DOMAIN rates["EUR"] : rates["EUR"][k].rate = 0
    /\ ret["EUR"] = <<>>
    /\ pc["USD"] = "returned"
    /\ rate_alerts # <<>>

----------------------------------------------------------------------------
(* A property of the alert store, under AlertSpec *)

\* the record of a_got that is the alert of the save s, under its id
ReadBack(s) ==
    {k \in DOMAIN a_got :
        /\ a_got[k].id = a_saved[s].id
        /\ a_got[k].currency = a_saved[s].alert.currency
        /\ a_got[k].start_date = a_saved[s].alert.start_date
        /\ a_got[k].end_date = a_saved[s].alert.end_date
        /\ a_got[k].start_rate = a_saved[s].alert.start_rate
        /\ a_got[k].end_rate = a_saved[s].alert.end_rate
        /\ a_got[k].change_percent = a_saved[s].alert.change_percent
        /\ a_got[k].duration_days = a_saved[s].alert.duration_days
        /\ a_got[k].alert_type = a_saved[s].alert.alert_type
        /\ a_got[k].severity = a_saved[s].alert.severity}

\* C21: save_rate_alert returns a positive id; a later
\* get_rate_alerts(currency) returns, for every alert of that currency saved
\* before it, one record under the id returned whose currency,
\* change_percent and other fields equal those saved, returns records of
\* that currency only, and returns them by descending start_date.
C21_AlertRoundTrip ==
    /\ \A s \in DOMAIN a_saved : a_saved[s].id > 0
    /\ a_query \in Currencies =>
           /\ \A k \in DOMAIN a_got : a_got[k].currency = a_query
           /\ \A s \in DOMAIN a_saved :
                  a_saved[s].alert.currency = a_query =>
                      Cardinality(ReadBack(s)) = 1
           /\ Len(a_got) =
                  Cardinality({s \in DOMAIN a_saved :
                                  a_saved[s].alert.currency = a_query})
           /\ \A j, k \in DOMAIN a_got :
                  j < k => DateTimeLE(a_got[k].start_date,
                                      a_got[j].start_date)

\* C21 happens: alerts of both currencies were saved, the EUR ones not in
\* the order of their start dates, and get_rate_alerts('EUR') returned two
\* or more records of different start dates.
C21_Witness ==
    /\ a_query = "EUR"
    /\ \E s \in DOMAIN a_saved : a_saved[s].alert.currency = "USD"
    /\ \E j, k \in DOMAIN a_got :
           /\ j < k
           /\ a_got[j].start_date # a_got[k].start_date
           /\ a_got[j].id < a_got[k].id

=============================================================================
